---- MODULE Spec2Model ----
(***************************************************************************)
(* Model of scripts/upgrade.py: the Upgrade class, which runs a fixed      *)
(* sequence of external commands (az, helm, kubectl) through run_cmd,      *)
(* checks every result, logs, and raises on the first failure.             *)
(*                                                                         *)
(* A run is identified by an element of Runs.  Under Spec only the run     *)
(* "run" is started.  Under SpecTwin a second run "rerun" of the same      *)
(* program is started from the same file system with a configuration that  *)
(* differs at most in dry_run and debug, and the external tools answer the *)
(* k-th command of either run with the same exit code.                     *)
(***************************************************************************)
EXTENDS Integers, Sequences, FiniteSets, TLC

VARIABLES
    cfg,        \* cfg[r]: the fields self.* set by Upgrade.__init__
    fs,         \* the directories that exist (absolute paths)
    pc,         \* pc[r]: the statement run r is at
    cwd,        \* cwd[r]: the process's working directory (absolute path)
    executed,   \* executed[r]: the argument vectors passed to run_cmd, in order
    env,        \* env[k]: the exit code the external tools gave the k-th command
    result,     \* result[r]: the local variable `result` (last run_cmd return)
    log,        \* log[r]: the records written through logging.info / logging.error
    raised      \* raised[r]: the exception that ended the run, if any

vars == <<cfg, fs, pc, cwd, executed, env, result, log, raised>>

-----------------------------------------------------------------------------
(* Bounds *)

MaxSubLen == 2
MaxChartDepth == 2

-----------------------------------------------------------------------------
(* Input domains *)

Runs == {"run", "rerun"}

RECURSIVE SeqsUpTo(_, _)
SeqsUpTo(S, n) ==
    IF n = 0 THEN {<<>>}
    ELSE LET shorter == SeqsUpTo(S, n - 1)
         IN  shorter \cup {Append(s, x) : s \in shorter, x \in S}

Chars == {"T", " ", "\t"}
Subscriptions == SeqsUpTo(Chars, MaxSubLen) \ {<<>>}

DirNames == {"charts", "hub23-chart"}
ChartPaths == SeqsUpTo(DirNames, MaxChartDepth) \ {<<>>}

HubNames == {"hub23", "demo"}

StartDir == <<"srv", "hub23-deploy">>

ExitCodes == {0, 1, 2}
Outputs == {"out"}
ErrMsgs == {"err-a", "err-b"}

\* The command-result record run_cmd returns.
Results == [returncode : ExitCodes, output : Outputs, err_msg : ErrMsgs]

NoResult == [returncode |-> -1, output |-> "", err_msg |-> ""]
NoException == [type |-> "none", msg |-> ""]

Configs ==
    [hub_name : HubNames, chart_name : ChartPaths,
     cluster_name : {"hub23cluster"}, resource_group : {"Hub23"},
     subscription : Subscriptions, identity : BOOLEAN,
     dry_run : BOOLEAN, debug : BOOLEAN]

-----------------------------------------------------------------------------
(* Strings and paths *)

\* A sequence of characters as the string it spells.
RECURSIVE Str(_)
Str(s) == IF s = <<>> THEN "" ELSE Head(s) \o Str(Tail(s))

\* A relative path given by its components, as the string the user typed.
RECURSIVE PathStr(_)
PathStr(p) ==
    IF Len(p) = 1 THEN p[1] ELSE p[1] \o "/" \o PathStr(Tail(p))

\* os.path.join(a, b)
PathJoin(a, b) == a \o "/" \o b

Prefixes(p) == {SubSeq(p, 1, n) : n \in 0..Len(p)}

\* os.chdir(os.pardir): the parent of the working directory (the root is its
\* own parent).
ChdirPardir(dir) ==
    IF dir = <<>> THEN <<>> ELSE SubSeq(dir, 1, Len(dir) - 1)

\* The directory os.chdir(self.chart_name) names, resolved from `dir`.
ChartDir(dir, c) == dir \o c.chart_name

Info(m) == [level |-> "INFO", msg |-> m]
Error(m) == [level |-> "ERROR", msg |-> m]

-----------------------------------------------------------------------------
(* Argument assembly *)

\* Variant: any whitespace character triggers the quoting.
HasWhitespace(sub) == \E i \in 1..Len(sub) : sub[i] \in {" ", "\t"}

\* `" " in self.subscription`
HasSpace(sub) == \E i \in 1..Len(sub) : sub[i] = " "

\* The argument appended to sub_cmd: f'"{self.subscription}"' or the name.
SubArg(sub) ==
    IF HasSpace(sub) THEN "\"" \o Str(sub) \o "\"" ELSE Str(sub)

LoginCmd(c) ==
    <<"az", "login">> \o (IF c.identity THEN <<"--identity">> ELSE <<>>)

SubCmd(c) == <<"az", "account", "set", "-s", SubArg(c.subscription)>>

CredsCmd(c) ==
    <<"az", "aks", "get-credentials", "-n", c.cluster_name,
      "-g", c.resource_group>>

HelmInitCmd == <<"helm", "init", "--client-only">>

UpdateCmd == <<"helm", "dependency", "update">>

\* Variant: the debug-only branch forgets to append its flag.
UpgradeFlagsDebugLost(c) ==
    IF c.dry_run /\ c.debug THEN
        [flags |-> <<"--dry-run", "--debug">>,
         msg |-> "Performing a dry-run helm upgrade with debugging output"]
    ELSE IF c.dry_run THEN
        [flags |-> <<"--dry-run">>,
         msg |-> "Performing a dry-run helm upgrade"]
    ELSE
        [flags |-> <<>>, msg |-> "Upgrading helm chart"]

\* The flags the if / elif chain of upgrade() adds, and the line it logs.
UpgradeFlags(c) ==
    IF c.dry_run /\ c.debug THEN
        [flags |-> <<"--dry-run", "--debug">>,
         msg |-> "Performing a dry-run helm upgrade with debugging output"]
    ELSE IF c.dry_run /\ ~c.debug THEN
        [flags |-> <<"--dry-run">>,
         msg |-> "Performing a dry-run helm upgrade"]
    ELSE IF ~c.dry_run /\ c.debug THEN
        [flags |-> <<"--debug">>,
         msg |-> "Performing a helm upgrade with debugging output"]
    ELSE
        [flags |-> <<>>, msg |-> "Upgrading helm chart"]

HelmUpgradeCmd(c) ==
    <<"helm", "upgrade", c.hub_name, PathStr(c.chart_name),
      "-f", PathJoin("deploy", "prod.yaml"),
      "-f", PathJoin(".secret", "prod.yaml"),
      "--wait">> \o UpgradeFlags(c).flags

\* Variant: the namespace is the default hub name, not the configured one.
PodsCmdDefaultNamespace(c) == <<"kubectl", "get", "pods", "-n", "hub23">>

PodsCmd(c) == <<"kubectl", "get", "pods", "-n", c.hub_name>>

\* Variant: --debug is passed to every helm command, not only to upgrade.
CmdDebugEverywhere(step, c) ==
    CASE step = "login" -> LoginCmd(c)
      [] step = "set_sub" -> SubCmd(c)
      [] step = "get_creds" -> CredsCmd(c)
      [] step = "helm_init" ->
            HelmInitCmd \o (IF c.debug THEN <<"--debug">> ELSE <<>>)
      [] step = "dep_update" ->
            UpdateCmd \o (IF c.debug THEN <<"--debug">> ELSE <<>>)
      [] step = "helm_upgrade" -> HelmUpgradeCmd(c)
      [] step = "print_pods" -> PodsCmd(c)

Cmd(step, c) ==
    CASE step = "login" -> LoginCmd(c)
      [] step = "set_sub" -> SubCmd(c)
      [] step = "get_creds" -> CredsCmd(c)
      [] step = "helm_init" -> HelmInitCmd
      [] step = "dep_update" -> UpdateCmd
      [] step = "helm_upgrade" -> HelmUpgradeCmd(c)
      [] step = "print_pods" -> PodsCmd(c)

\* What is logged just before the step's run_cmd call.
BeforeMsgs(step, c) ==
    CASE step = "login" ->
            <<Info(IF c.identity
                   THEN "Logging into Azure with a Managed System Identity"
                   ELSE "Logging into Azure")>>
      [] step = "set_sub" ->
            <<Info("Setting Azure subscription: " \o Str(c.subscription))>>
      [] step = "get_creds" ->
            <<Info("Setting kubectl context for: " \o c.cluster_name)>>
      [] step = "helm_init" -> <<Info("Initialising Helm")>>
      [] step = "dep_update" -> <<>>
      [] step = "helm_upgrade" -> <<Info(UpgradeFlags(c).msg)>>
      [] step = "print_pods" -> <<Info("Fetching the Kubernetes pods")>>

\* What the returncode == 0 branch of the step passes to logging.info.
SuccessMsg(step, c, res) ==
    CASE step = "login" -> "Successfully logged into Azure"
      [] step = "set_sub" ->
            "Successfully set Azure subscription: " \o Str(c.subscription)
      [] OTHER -> res.output

\* Variant: helm is initialised before the cluster credentials are fetched.
StepAfterInitFirst(step) ==
    CASE step = "start" -> "login"
      [] step = "login" -> "set_sub"
      [] step = "set_sub" -> "helm_init"
      [] step = "helm_init" -> "get_creds"
      [] step = "get_creds" -> "chdir"
      [] step = "chdir" -> "dep_update"
      [] step = "dep_update" -> "chdir_back"
      [] step = "chdir_back" -> "helm_upgrade"
      [] step = "helm_upgrade" -> "print_pods"
      [] step = "print_pods" -> "done"

\* The statement that follows a step whose command returned 0.
StepAfter(step) ==
    CASE step = "start" -> "login"
      [] step = "login" -> "set_sub"
      [] step = "set_sub" -> "get_creds"
      [] step = "get_creds" -> "helm_init"
      [] step = "helm_init" -> "chdir"
      [] step = "chdir" -> "dep_update"
      [] step = "dep_update" -> "chdir_back"
      [] step = "chdir_back" -> "helm_upgrade"
      [] step = "helm_upgrade" -> "print_pods"
      [] step = "print_pods" -> "done"

\* Variant: only exit code 1 is taken for a failure.
CheckResultOnlyOne(res, okMsg, next) ==
    IF res.returncode # 1
    THEN [pc |-> next, log |-> <<Info(okMsg)>>, raised |-> NoException]
    ELSE [pc |-> "aborted", log |-> <<Error(res.err_msg)>>,
          raised |-> [type |-> "Exception", msg |-> res.err_msg]]

\* Variant: a failure is logged but not raised.
CheckResultNoRaise(res, okMsg, next) ==
    IF res.returncode = 0
    THEN [pc |-> next, log |-> <<Info(okMsg)>>, raised |-> NoException]
    ELSE [pc |-> next, log |-> <<Error(res.err_msg)>>, raised |-> NoException]

\* Variant: the failure branch logs the captured output, not the error text.
CheckResultLogsOutput(res, okMsg, next) ==
    IF res.returncode = 0
    THEN [pc |-> next, log |-> <<Info(okMsg)>>, raised |-> NoException]
    ELSE [pc |-> "aborted", log |-> <<Error(res.output)>>,
          raised |-> [type |-> "Exception", msg |-> res.err_msg]]

\* if result["returncode"] == 0: logging.info(...)
\* else: logging.error(result["err_msg"]); raise Exception(result["err_msg"])
CheckResult(res, okMsg, next) ==
    IF res.returncode = 0
    THEN [pc |-> next, log |-> <<Info(okMsg)>>, raised |-> NoException]
    ELSE [pc |-> "aborted", log |-> <<Error(res.err_msg)>>,
          raised |-> [type |-> "Exception", msg |-> res.err_msg]]

-----------------------------------------------------------------------------
(* The external tools *)

\* The results the k-th command of run r may get: any, unless the other run
\* already got its k-th answer, whose exit code is then repeated.
Answers(r) ==
    LET k == Len(executed[r]) + 1
    IN  IF k <= Len(env)
        THEN {res \in Results : res.returncode = env[k]}
        ELSE Results

Record(r, res) ==
    IF Len(executed[r]) < Len(env) THEN env ELSE Append(env, res.returncode)

-----------------------------------------------------------------------------
(* Initial states *)

FileSystems(c) ==
    {Prefixes(StartDir \o c.chart_name), Prefixes(StartDir)}

InitRun(first) ==
    /\ cfg["run"] \in Configs
    /\ fs \in FileSystems(cfg["run"])
    /\ pc = [r \in Runs |-> IF r = "run" THEN "start" ELSE first]
    /\ cwd = [r \in Runs |-> StartDir]
    /\ executed = [r \in Runs |-> <<>>]
    /\ env = <<>>
    /\ result = [r \in Runs |-> NoResult]
    /\ log = [r \in Runs |-> <<>>]
    /\ raised = [r \in Runs |-> NoException]

Init ==
    /\ cfg \in [Runs -> Configs]
    /\ cfg["rerun"] = cfg["run"]
    /\ InitRun("off")

\* The configurations the pair of runs is started from.
TwinConfigs ==
    {c \in Configs : c.subscription \in {<<"T">>, <<"T", " ">>}}

InitTwin ==
    /\ cfg \in [Runs -> TwinConfigs]
    /\ \E d, g \in BOOLEAN :
          cfg["rerun"] = [cfg["run"] EXCEPT !.dry_run = d, !.debug = g]
    /\ InitRun("start")

-----------------------------------------------------------------------------
(* Actions *)

\* upgrade(), lines 97-98.  The second run of a pair is started once the first
\* has ended, so that it finds the exit codes the first run's commands got.
Start(r) ==
    /\ pc[r] = "start"
    /\ r = "rerun" => pc["run"] \in {"done", "aborted"}
    /\ pc' = [pc EXCEPT ![r] = StepAfter("start")]
    /\ log' = [log EXCEPT ![r] =
                 IF cfg[r].dry_run
                 THEN Append(@, Info("THIS IS A DRY-RUN. HELM CHART WILL NOT BE UPGRADED."))
                 ELSE @]
    /\ UNCHANGED <<cfg, fs, cwd, executed, env, result, raised>>

\* One run_cmd call with the logging before it and the check after it.
Exec(r, step) ==
    /\ pc[r] = step
    /\ \E res \in Answers(r) :
          LET c == cfg[r]
              out == CheckResult(res, SuccessMsg(step, c, res), StepAfter(step))
          IN  /\ executed' = [executed EXCEPT ![r] = Append(@, Cmd(step, c))]
              /\ env' = Record(r, res)
              /\ result' = [result EXCEPT ![r] = res]
              /\ log' = [log EXCEPT ![r] = @ \o BeforeMsgs(step, c) \o out.log]
              /\ pc' = [pc EXCEPT ![r] = out.pc]
              /\ raised' = [raised EXCEPT ![r] = out.raised]
    /\ UNCHANGED <<cfg, fs, cwd>>

Login(r) == Exec(r, "login")
SetSubscription(r) == Exec(r, "set_sub")
GetCredentials(r) == Exec(r, "get_creds")
HelmInit(r) == Exec(r, "helm_init")

\* update_local_chart(), lines 210-211
ChdirChart(r) ==
    /\ pc[r] = "chdir"
    /\ log' = [log EXCEPT ![r] =
                 Append(@, Info("Updating local chart dependencies: "
                                \o PathStr(cfg[r].chart_name)))]
    /\ IF ChartDir(cwd[r], cfg[r]) \in fs
       THEN /\ cwd' = [cwd EXCEPT ![r] = ChartDir(cwd[r], cfg[r])]
            /\ pc' = [pc EXCEPT ![r] = StepAfter("chdir")]
            /\ UNCHANGED raised
       ELSE /\ raised' = [raised EXCEPT ![r] =
                            [type |-> "FileNotFoundError",
                             msg |-> PathStr(cfg[r].chart_name)]]
            /\ pc' = [pc EXCEPT ![r] = "aborted"]
            /\ UNCHANGED cwd
    /\ UNCHANGED <<cfg, fs, executed, env, result>>

DependencyUpdate(r) == Exec(r, "dep_update")

\* update_local_chart(), line 221
ChdirBack(r) ==
    /\ pc[r] = "chdir_back"
    /\ cwd' = [cwd EXCEPT ![r] = ChdirPardir(cwd[r])]
    /\ pc' = [pc EXCEPT ![r] = StepAfter("chdir_back")]
    /\ UNCHANGED <<cfg, fs, executed, env, result, log, raised>>

HelmUpgrade(r) == Exec(r, "helm_upgrade")
PrintPods(r) == Exec(r, "print_pods")

Next ==
    \E r \in Runs :
        \/ Start(r)
        \/ Login(r)
        \/ SetSubscription(r)
        \/ GetCredentials(r)
        \/ HelmInit(r)
        \/ ChdirChart(r)
        \/ DependencyUpdate(r)
        \/ ChdirBack(r)
        \/ HelmUpgrade(r)
        \/ PrintPods(r)

Spec == Init /\ [][Next]_vars

SpecTwin == InitTwin /\ [][Next]_vars

-----------------------------------------------------------------------------
(* Vocabulary of the properties *)

\* The seven external commands, by the names the specification gives them.
Order ==
    <<"login", "set-subscription", "fetch-credentials", "init-client",
      "update-dependencies", "upgrade", "list-pods">>

\* Which external command an argument vector invokes: the program and its
\* subcommand.
Kind(argv) ==
    CASE argv[1] = "az" /\ argv[2] = "login" -> "login"
      [] argv[1] = "az" /\ argv[2] = "account" /\ argv[3] = "set" ->
            "set-subscription"
      [] argv[1] = "az" /\ argv[2] = "aks" /\ argv[3] = "get-credentials" ->
            "fetch-credentials"
      [] argv[1] = "helm" /\ argv[2] = "init" -> "init-client"
      [] argv[1] = "helm" /\ argv[2] = "dependency" /\ argv[3] = "update" ->
            "update-dependencies"
      [] argv[1] = "helm" /\ argv[2] = "upgrade" -> "upgrade"
      [] argv[1] = "kubectl" /\ argv[2] = "get" /\ argv[3] = "pods" ->
            "list-pods"
      [] OTHER -> "other"

Kinds(r) == [k \in 1..Len(executed[r]) |-> Kind(executed[r][k])]

NumExecuted(r) == Len(executed[r])

Ended(r) == pc[r] \in {"done", "aborted"}

\* The exit code the k-th command of a run got.
ExitCode(k) == env[k]

AllZero(r) == \A k \in 1..NumExecuted(r) : ExitCode(k) = 0

CommandError(msg) == [type |-> "Exception", msg |-> msg]

\* update_local_chart() has been entered and left, by return or by exception.
UpdateLocalChartEnded(r) ==
    \/ pc[r] \in {"helm_upgrade", "print_pods", "done"}
    \/ pc[r] = "aborted" /\ NumExecuted(r) >= 5
    \/ pc[r] = "aborted" /\ raised[r].type = "FileNotFoundError"

\* update_local_chart() has returned: its command returned 0.
UpdateLocalChartReturned(r) ==
    \/ pc[r] \in {"helm_upgrade", "print_pods", "done"}
    \/ pc[r] = "aborted" /\ NumExecuted(r) >= 6

-----------------------------------------------------------------------------
(* C1 *)

\* C1: whichever of the seven commands returns a non-zero exit code, the run
\* is aborted by an exception carrying that command's captured error text,
\* and that command is the last one the run executes.
C1_AbortOnFailure ==
    \A r \in Runs : \A k \in 1..NumExecuted(r) :
        ExitCode(k) # 0 =>
            /\ NumExecuted(r) = k
            /\ pc[r] = "aborted"
            /\ result[r].returncode = ExitCode(k)
            /\ raised[r] = CommandError(result[r].err_msg)

C1_Witness ==
    /\ NumExecuted("run") = 6
    /\ ExitCode(6) = 2
    /\ pc["run"] = "aborted"
    /\ raised["run"] = CommandError("err-b")

-----------------------------------------------------------------------------
(* C2 *)

-----------------------------------------------------------------------------
(* C3 *)

ExpectedUpgrade(c) ==
    <<"helm", "upgrade", c.hub_name, PathStr(c.chart_name),
      "-f", "deploy/prod.yaml", "-f", ".secret/prod.yaml", "--wait">>
    \o (IF c.dry_run THEN <<"--dry-run">> ELSE <<>>)
    \o (IF c.debug THEN <<"--debug">> ELSE <<>>)

\* C3: the sixth command executed is helm upgrade <hub> <chart> with the two
\* value files and --wait, then --dry-run iff dry_run, then --debug iff debug,
\* and nothing else; for hub23 / hub23-chart with dry_run only it is the
\* command line the specification quotes.
C3_UpgradeCommand ==
    \A r \in Runs :
        NumExecuted(r) >= 6 =>
            /\ executed[r][6] = ExpectedUpgrade(cfg[r])
            /\ (/\ cfg[r].hub_name = "hub23"
                /\ cfg[r].chart_name = <<"hub23-chart">>
                /\ cfg[r].dry_run
                /\ ~cfg[r].debug)
               => executed[r][6] =
                    <<"helm", "upgrade", "hub23", "hub23-chart",
                      "-f", "deploy/prod.yaml", "-f", ".secret/prod.yaml",
                      "--wait", "--dry-run">>

C3_Witness ==
    /\ NumExecuted("run") >= 6
    /\ ~cfg["run"].dry_run
    /\ cfg["run"].debug
    /\ executed["run"][6][Len(executed["run"][6])] = "--debug"
    /\ Len(executed["run"][6]) = 10

-----------------------------------------------------------------------------
(* C4 *)

\* C4: whenever update_local_chart has ended, by return or by exception, the
\* working directory is the one the run started in.
C4_CwdRestoredOnEveryPath ==
    \A r \in Runs : UpdateLocalChartEnded(r) => cwd[r] = StartDir

-----------------------------------------------------------------------------
(* C5 *)

\* C5: for every chart path, once the dependency update has succeeded and
\* update_local_chart has returned, the working directory is the one the run
\* started in.
C5_CwdRestoredOnSuccess ==
    \A r \in Runs : UpdateLocalChartReturned(r) => cwd[r] = StartDir

-----------------------------------------------------------------------------
(* C6 *)

-----------------------------------------------------------------------------
(* C7 *)

\* A step of run r that called run_cmd.
Invoked(r) == executed'[r] # executed[r]

\* C7 as stated: every invocation that returns 0 logs the captured output at
\* info level; every invocation that returns non-zero logs the captured error
\* text at error level and raises an exception carrying it.
C7_OutputAlwaysLogged ==
    [][\A r \in Runs :
         Invoked(r) =>
            LET res == result'[r]
                last == log'[r][Len(log'[r])]
            IN  IF res.returncode = 0
                THEN last = [level |-> "INFO", msg |-> res.output]
                ELSE /\ last = [level |-> "ERROR", msg |-> res.err_msg]
                     /\ raised'[r] = CommandError(res.err_msg)]_vars

\* C7 amended: az login and az account set log a fixed success message at
\* info level when they return 0; the five later commands log their captured
\* output at info level; a non-zero exit code logs the captured error text at
\* error level and raises an exception carrying it.
C7_ResultLogged ==
    [][\A r \in Runs :
         Invoked(r) =>
            LET res == result'[r]
                last == log'[r][Len(log'[r])]
                n == Len(executed'[r])
            IN  IF res.returncode = 0
                THEN /\ last.level = "INFO"
                     /\ n = 1 => last.msg = "Successfully logged into Azure"
                     /\ n = 2 => last.msg =
                            "Successfully set Azure subscription: "
                            \o Str(cfg[r].subscription)
                     /\ n >= 3 => last.msg = res.output
                     /\ raised'[r] = NoException
                ELSE /\ last = [level |-> "ERROR", msg |-> res.err_msg]
                     /\ raised'[r] = CommandError(res.err_msg)
                     /\ pc'[r] = "aborted"]_vars

C7_Witness ==
    /\ NumExecuted("run") = 3
    /\ ~cfg["run"].dry_run
    /\ result["run"].returncode = 0
    /\ log["run"][2] = [level |-> "INFO", msg |-> "Successfully logged into Azure"]
    /\ log["run"][Len(log["run"])] =
          [level |-> "INFO", msg |-> result["run"].output]

-----------------------------------------------------------------------------
(* C8 *)

\* C8: the seventh command is kubectl get pods -n <hub name>, the hub name
\* being the release name of the upgrade command, and it is executed only
\* when the upgrade command returned 0.
C8_PodsNamespace ==
    \A r \in Runs :
        NumExecuted(r) >= 7 =>
            /\ executed[r][7] = <<"kubectl", "get", "pods", "-n", cfg[r].hub_name>>
            /\ executed[r][7][5] = executed[r][6][3]
            /\ Kind(executed[r][6]) = "upgrade"
            /\ ExitCode(6) = 0

C8_Witness ==
    /\ NumExecuted("run") = 7
    /\ cfg["run"].hub_name = "demo"
    /\ executed["run"][7][5] = "demo"

-----------------------------------------------------------------------------
(* C9 *)

\* No command is invoked twice, only the last invocation can have failed, and
\* there are at most seven invocations.
NoRetryNoRollback(r) ==
    /\ NumExecuted(r) <= Len(Order)
    /\ \A j, k \in 1..NumExecuted(r) : j # k => Kind(executed[r][j]) # Kind(executed[r][k])
    /\ \A k \in 1..NumExecuted(r) : ExitCode(k) # 0 => k = NumExecuted(r)

CompletedAfterListPods(r) ==
    /\ pc[r] = "done"
    /\ NumExecuted(r) = Len(Order)
    /\ Kind(executed[r][NumExecuted(r)]) = "list-pods"

AbortedAtFailingCommand(r) ==
    /\ pc[r] = "aborted"
    /\ NumExecuted(r) >= 1
    /\ ExitCode(NumExecuted(r)) # 0

\* os.chdir(self.chart_name) raised: no command has failed.
AbortedEnteringChartDir(r) ==
    /\ pc[r] = "aborted"
    /\ raised[r].type = "FileNotFoundError"
    /\ NumExecuted(r) = 4
    /\ AllZero(r)

\* C9 as stated: no retry, no rollback, at most seven invocations, and every
\* run that has ended is completed after list-pods or aborted at the first
\* failing command.
C9_TwoWaysToEnd ==
    \A r \in Runs :
        /\ NoRetryNoRollback(r)
        /\ Ended(r) => CompletedAfterListPods(r) \/ AbortedAtFailingCommand(r)

\* C9 amended: as stated, with a third way to end: aborted by the change
\* into the chart directory failing, after init-client returned 0 and before
\* update-dependencies is invoked.
C9_NoRetryNoRollback ==
    \A r \in Runs :
        /\ NoRetryNoRollback(r)
        /\ Ended(r) =>
              \/ CompletedAfterListPods(r)
              \/ AbortedAtFailingCommand(r)
              \/ AbortedEnteringChartDir(r)

C9_Witness ==
    /\ AbortedAtFailingCommand("run")
    /\ NumExecuted("run") = 5
    /\ cwd["run"] # StartDir

-----------------------------------------------------------------------------
(* C10 *)

\* The arguments of an upgrade command that come before the flags.
UpgradeBase(argv) == SubSeq(argv, 1, 9)

\* C10: two runs whose configurations differ at most in dry_run and debug,
\* and whose commands get the same exit codes, execute the same commands in
\* the same order, with identical arguments except for the flags of the
\* upgrade command, end the same way and in the same directory; a dry run has
\* logged in, fetched the credentials and changed the working directory by
\* the time it updates the chart dependencies.
C10_FlagsOnlyAffectUpgrade ==
    /\ \A k \in 1..NumExecuted("run") :
          k <= NumExecuted("rerun") =>
              IF k = 6
              THEN /\ Kind(executed["rerun"][k]) = Kind(executed["run"][k])
                   /\ UpgradeBase(executed["rerun"][k]) = UpgradeBase(executed["run"][k])
              ELSE executed["rerun"][k] = executed["run"][k]
    /\ (Ended("run") /\ Ended("rerun")) =>
          /\ NumExecuted("rerun") = NumExecuted("run")
          /\ pc["rerun"] = pc["run"]
          /\ cwd["rerun"] = cwd["run"]
    /\ \A r \in Runs :
          (cfg[r].dry_run /\ NumExecuted(r) >= 5) =>
              /\ SubSeq(Kinds(r), 1, 5) = SubSeq(Order, 1, 5)
              /\ (NumExecuted(r) = 5 /\ pc[r] \in {"chdir_back", "aborted"}) =>
                    cwd[r] = StartDir \o cfg[r].chart_name

C10_Witness ==
    /\ pc["run"] = "done"
    /\ pc["rerun"] = "done"
    /\ cfg["run"].dry_run
    /\ ~cfg["rerun"].dry_run
    /\ cfg["run"].debug # cfg["rerun"].debug
    /\ executed["run"][6] # executed["rerun"][6]

====
